---- MODULE Spec2Model ----
(***************************************************************************)
(* Event relay of axum-visa-tracker-sse: one tokio broadcast channel       *)
(* (the Topic) owned by AppState, a publish handler (send / handler) and   *)
(* a streaming handler (subscribe / sse_handler) whose stream loops over   *)
(* rx.recv().                                                              *)
(*                                                                         *)
(* The repository holds two revisions of the relay: src/event.rs carries   *)
(* AppEvent { percentage: f64 } with range validation and JSON frames,     *)
(* src/main.rs + src/send_event.rs carry AppEvent = String.  The variable  *)
(* rev fixes which revision a behaviour runs.                              *)
(*                                                                         *)
(* The broadcast channel itself is the tokio primitive the code calls      *)
(* (channel, Sender::send, Sender::subscribe, Receiver::recv, the drop of  *)
(* a Receiver); it is modelled slot by slot: a ring of slots {pos,rem,val},*)
(* a tail {pos,rx_cnt,closed} and one cursor (next) per receiver.          *)
(* Positions are u64 in the primitive; no behaviour within MaxPublishes    *)
(* comes near 2^64, so they are plain integers here and the initial slot   *)
(* positions i - capacity stand for their wrapped values.                  *)
(***************************************************************************)
EXTENDS Integers, Sequences, FiniteSets, TLC

\* ---------------------------------------------------------------- bounds
\* Stand-in for the capacity asked of broadcast::channel (800 in the code):
\* like 800 it is not a power of two.
RequestedCapacity == 3

\* Publishes enqueued into the topic per behaviour.
MaxPublishes == 5

\* Connection slots: each holds at most one live subscription at a time and
\* is reused by a later connection.
Subs == {"c1", "c2"}

\* f64 percentages a client may post: below, at and above the bounds.
Percentages == {-1, 0, 100, 101}

\* Messages a client may post in the String revision.
Messages == {"a", "b"}

Revisions == {"percentage", "message"}

\* Option<T>: None is the empty tuple, Some(v) the one-element tuple.
None == <<>>

Some(v) == <<v>>

VARIABLES
    rev,        \* which revision of the relay runs
    buffer,     \* Shared.buffer: slot index -> [pos, rem, val, id]
    tail,       \* Shared.tail: [pos, rx_cnt, closed]
    rx,         \* connection slot -> [st, alive, next, err]
    waiting,    \* connection slot -> its recv is suspended with a waker stored
    delivered,  \* connection slot -> frames yielded on the live connection, in order
    anchor,     \* connection slot -> number of events enqueued when it subscribed
    log,        \* the events enqueued so far, in enqueue order
    response    \* the response to the latest publish request

vars == <<rev, buffer, tail, rx, waiting, delivered, anchor, log, response>>

\* ------------------------------------------------------- the broadcast ring
RECURSIVE NextPowerOfTwoFrom(_, _)
NextPowerOfTwoFrom(p, n) == IF p >= n THEN p ELSE NextPowerOfTwoFrom(2 * p, n)

\* usize::next_power_of_two
NextPowerOfTwo(n) == NextPowerOfTwoFrom(1, n)

\* Mutant: the ring has exactly the capacity asked for.
CapacityAsRequested == RequestedCapacity

\* broadcast::channel(capacity): the ring has next_power_of_two(capacity) slots.
Capacity == NextPowerOfTwo(RequestedCapacity)

Slots == 0 .. (Capacity - 1)

\* pos & mask
Idx(pos) == pos % Capacity


\* The ring right after Sender::new_with_receiver_count: slot i carries the
\* position i - capacity, so that its first write is position i.
ChannelBuffer ==
    [i \in Slots |-> [pos |-> i - Capacity, rem |-> 0, val |-> None, id |-> 0]]

\* The tail right after broadcast::channel: one receiver (_rx), position 0.
ChannelTail == [pos |-> 0, rx_cnt |-> 1, closed |-> FALSE]

\* Mutant: the slot at the cursor is read without comparing its position.
RecvRefNoPosCheck(buf, t, next) ==
    IF buf[Idx(next)].pos + Capacity = next
    THEN [res |-> IF t.closed THEN "Closed" ELSE "Empty",
          next |-> next, idx |-> Idx(next), missed |-> 0]
    ELSE [res |-> "Ok", next |-> next + 1, idx |-> Idx(next), missed |-> 0]

\* Receiver::recv_ref on cursor next: the outcome and the cursor afterwards.
RecvRef(buf, t, next) ==
    LET idx  == Idx(next)
        slot == buf[idx]
    IN  IF slot.pos # next
        THEN IF slot.pos + Capacity = next
             THEN \* nothing written at the cursor yet
                  [res |-> IF t.closed THEN "Closed" ELSE "Empty",
                   next |-> next, idx |-> idx, missed |-> 0]
             ELSE \* the slot was overwritten: catch up with the oldest slot
                  LET oldest == t.pos - Capacity
                      missed == oldest - next
                  IN  IF missed = 0
                      THEN [res |-> "Ok", next |-> next + 1, idx |-> idx, missed |-> 0]
                      ELSE [res |-> "Lagged", next |-> oldest, idx |-> idx,
                            missed |-> missed]
        ELSE [res |-> "Ok", next |-> next + 1, idx |-> idx, missed |-> 0]

\* Mutant: the value is freed by the first reader that releases the slot.
ReleaseSlotFreesValue(buf, idx) ==
    [buf EXCEPT ![idx] = [@ EXCEPT !.rem = @ - 1, !.val = None]]

\* Drop of a RecvGuard: one reader less for the slot; the last one frees the value.
ReleaseSlot(buf, idx) ==
    [buf EXCEPT ![idx] = [@ EXCEPT !.rem = @ - 1,
                                   !.val = IF buf[idx].rem = 1 THEN None ELSE @]]

\* The loop of Receiver::drop: read and release every slot up to until.
RECURSIVE Drain(_, _, _, _)
Drain(buf, t, next, until) ==
    IF next >= until
    THEN buf
    ELSE LET r == RecvRef(buf, t, next)
         IN  CASE r.res = "Ok"     -> Drain(ReleaseSlot(buf, r.idx), t, r.next, until)
               [] r.res = "Lagged" -> Drain(buf, t, r.next, until)
               [] OTHER            -> buf

\* Mutant: the drop forgets to take the receiver off the count.
DropReceiverLeaksCount(buf, t, next) ==
    [tail |-> t, buffer |-> Drain(buf, t, next, t.pos)]

\* Mutant: the drop of any receiver closes the channel.
DropReceiverClosesChannel(buf, t, next) ==
    LET t1 == [t EXCEPT !.rx_cnt = @ - 1, !.closed = TRUE]
    IN  [tail |-> t1, buffer |-> Drain(buf, t1, next, t.pos)]

\* Receiver::drop for a receiver whose cursor is next.
DropReceiver(buf, t, next) ==
    LET t1 == [t EXCEPT !.rx_cnt = @ - 1,
                        !.closed = (@ \/ t.rx_cnt = 1)]
    IN  [tail |-> t1, buffer |-> Drain(buf, t1, next, t.pos)]

\* Mutant: the cursor starts at the oldest slot still in the ring.
NewReceiverFromOldest(t) ==
    [tail |-> [t EXCEPT !.rx_cnt = @ + 1,
                        !.closed = IF t.rx_cnt = 0 THEN FALSE ELSE @],
     next |-> IF t.pos > Capacity THEN t.pos - Capacity ELSE 0]

\* Mutant: a channel closed by the drop of its last receiver stays closed.
NewReceiverStaysClosed(t) ==
    [tail |-> [t EXCEPT !.rx_cnt = @ + 1], next |-> t.pos]

\* Sender::subscribe (new_receiver): the cursor starts at the tail.
NewReceiver(t) ==
    [tail |-> [t EXCEPT !.rx_cnt = @ + 1,
                        !.closed = IF t.rx_cnt = 0 THEN FALSE ELSE @],
     next |-> t.pos]

\* Mutant: the value is written whether or not a receiver exists.
SenderSendAlways(buf, t, value, id) ==
    [ok |-> t.rx_cnt > 0, n |-> t.rx_cnt,
     buffer |-> [buf EXCEPT ![Idx(t.pos)] =
                    [pos |-> t.pos, rem |-> t.rx_cnt, val |-> Some(value), id |-> id]],
     tail |-> [t EXCEPT !.pos = @ + 1]]

\* Sender::send: with no receiver the value is handed back in the error and
\* nothing is written; otherwise the slot at the tail is overwritten.
SenderSend(buf, t, value, id) ==
    IF t.rx_cnt = 0
    THEN [ok |-> FALSE, n |-> 0, buffer |-> buf, tail |-> t]
    ELSE [ok |-> TRUE, n |-> t.rx_cnt,
          buffer |-> [buf EXCEPT ![Idx(t.pos)] =
                         [pos |-> t.pos, rem |-> t.rx_cnt,
                          val |-> Some(value), id |-> id]],
          tail |-> [t EXCEPT !.pos = @ + 1]]

\* ------------------------------------------------------------- AppState
\* Mutant: the receiver made with the channel is kept in the state.
AppStateNewKeepsRx == [tail |-> ChannelTail, buffer |-> ChannelBuffer]

\* AppState::new: the channel is created and _rx is dropped on return.
AppStateNew == DropReceiver(ChannelBuffer, ChannelTail, 0)

NoRx == [st |-> "idle", alive |-> FALSE, next |-> 0, err |-> None]

NoResponse == [status |-> 0, code |-> "", message |-> "", args |-> <<>>]

Init ==
    /\ rev \in Revisions
    /\ buffer = AppStateNew.buffer
    /\ tail = AppStateNew.tail
    /\ rx = [s \in Subs |-> NoRx]
    /\ waiting = [s \in Subs |-> FALSE]
    /\ delivered = [s \in Subs |-> <<>>]
    /\ anchor = [s \in Subs |-> 0]
    /\ log = <<>>
    /\ response = NoResponse

\* ------------------------------------------------------------- publish
\* Mutant: the send waits for room, as a bounded queue with back-pressure
\* does: it cannot run while a live receiver is a full ring behind.
TxSendWaitsForRoom(value) ==
    LET r == SenderSend(buffer, tail, value, Len(log) + 1)
    IN  /\ \A s \in Subs : rx[s].alive => tail.pos - rx[s].next < Capacity
        /\ buffer' = r.buffer
        /\ tail' = r.tail
        /\ waiting' = IF r.ok THEN [s \in Subs |-> FALSE] ELSE waiting
        /\ log' = IF r.ok THEN Append(log, value) ELSE log

\* Mutant: the value is enqueued but the suspended receivers are not woken.
TxSendNoWake(value) ==
    LET r == SenderSend(buffer, tail, value, Len(log) + 1)
    IN  /\ buffer' = r.buffer
        /\ tail' = r.tail
        /\ waiting' = waiting
        /\ log' = IF r.ok THEN Append(log, value) ELSE log

\* state.tx.send(value) and what it does to the shared state: the value is
\* enqueued and every suspended recv is woken (notify_rx).
TxSend(value) ==
    LET r == SenderSend(buffer, tail, value, Len(log) + 1)
    IN  /\ buffer' = r.buffer
        /\ tail' = r.tail
        /\ waiting' = IF r.ok THEN [s \in Subs |-> FALSE] ELSE waiting
        /\ log' = IF r.ok THEN Append(log, value) ELSE log

\* Mutant: the Err arm answers as a server error.
SendResponseErrIs500(r) ==
    IF r.ok
    THEN [status |-> 200, code |-> "",
          message |-> "Event sent to {} listeners!", args |-> <<r.n>>]
    ELSE [status |-> 500, code |-> "UNKNOWN_ERROR",
          message |-> "An unexpected error occured", args |-> <<>>]

\* The two arms of match state.tx.send(..): 200 with the count, or 202.
SendResponse(r) ==
    IF r.ok
    THEN [status |-> 200, code |-> "",
          message |-> "Event sent to {} listeners!", args |-> <<r.n>>]
    ELSE [status |-> 202, code |-> "",
          message |-> "Event accepted, but no listeners", args |-> <<>>]

\* The variants of axum's JsonRejection; the enum is non_exhaustive, and
\* OtherRejection stands for whatever the wildcard arm would catch.
RejectionKinds ==
    {"MissingJsonContentType", "JsonDataError", "JsonSyntaxError", "BytesRejection"}

OtherRejection == "Other"

\* Mutant: the codes of the data error and the syntax error are swapped.
IntoResponseSwapped(kind) ==
    CASE kind = "MissingJsonContentType" ->
             [status |-> 400, code |-> "MISSING_JSON_CONTENT_TYPE",
              message |-> "Missing or invalid Content-Type header. Expected 'application/json'",
              args |-> <<>>]
      [] kind = "JsonDataError" ->
             [status |-> 400, code |-> "JSON_VALIDITY_ERROR",
              message |-> "json_data_error.body_text()", args |-> <<>>]
      [] kind = "JsonSyntaxError" ->
             [status |-> 400, code |-> "JSON_DESERIALIZATION_ERROR",
              message |-> "json_syntax_error.body_text()", args |-> <<>>]
      [] kind = "BytesRejection" ->
             [status |-> 400, code |-> "BUFFER_ERROR",
              message |-> "bytes_rejection.body_text()", args |-> <<>>]
      [] OTHER ->
             [status |-> 500, code |-> "UNKNOWN_ERROR",
              message |-> "An unexpected error occured", args |-> <<>>]

\* AppError::into_response: the match over the rejection.
IntoResponse(kind) ==
    CASE kind = "MissingJsonContentType" ->
             [status |-> 400, code |-> "MISSING_JSON_CONTENT_TYPE",
              message |-> "Missing or invalid Content-Type header. Expected 'application/json'",
              args |-> <<>>]
      [] kind = "JsonDataError" ->
             [status |-> 400, code |-> "JSON_DESERIALIZATION_ERROR",
              message |-> "json_data_error.body_text()", args |-> <<>>]
      [] kind = "JsonSyntaxError" ->
             [status |-> 400, code |-> "JSON_VALIDITY_ERROR",
              message |-> "json_syntax_error.body_text()", args |-> <<>>]
      [] kind = "BytesRejection" ->
             [status |-> 400, code |-> "BUFFER_ERROR",
              message |-> "bytes_rejection.body_text()", args |-> <<>>]
      [] OTHER ->
             [status |-> 500, code |-> "UNKNOWN_ERROR",
              message |-> "An unexpected error occured", args |-> <<>>]

\* event.rs send, when the WithRejection extractor rejects the body: the
\* response is AppError::into_response and the handler body does not run.
SendRejected(kind) ==
    /\ rev = "percentage"
    /\ response' = IntoResponse(kind)
    /\ UNCHANGED <<rev, buffer, tail, rx, waiting, delivered, anchor, log>>

\* Mutant: the upper bound is not checked.
RangeExceededNoUpper(percentage) == percentage < 0

RangeExceeded(percentage) == percentage < 0 \/ percentage > 100

\* event.rs send: POST /events/send with a well-formed body {percentage}.
Send(percentage) ==
    /\ rev = "percentage"
    /\ IF RangeExceeded(percentage)
       THEN /\ response' = [status |-> 400,
                            code |-> "RANGE_EXCEEDED_ERROR",
                            message |-> "Percentage range is exceeded. It should be within 0-100, but got {}",
                            args |-> <<percentage>>]
            /\ UNCHANGED <<buffer, tail, waiting, log>>
       ELSE /\ TxSend([percentage |-> percentage])
            /\ response' = SendResponse(
                   SenderSend(buffer, tail, [percentage |-> percentage], Len(log) + 1))
    /\ UNCHANGED <<rev, rx, delivered, anchor>>

\* send_event.rs handler: POST /events/send with a well-formed body {message}.
Handler(message) ==
    /\ rev = "message"
    /\ TxSend(message)
    /\ response' = SendResponse(
           SenderSend(buffer, tail, message, Len(log) + 1))
    /\ UNCHANGED <<rev, rx, delivered, anchor>>

\* ------------------------------------------------------------ subscribe
\* let mut rx = state.tx.subscribe(): a connection slot gets a fresh cursor.
TxSubscribe(s) ==
    LET r == NewReceiver(tail)
    IN  /\ ~rx[s].alive
        /\ tail' = r.tail
        /\ rx' = [rx EXCEPT ![s] = [st |-> "connected", alive |-> TRUE,
                                    next |-> r.next, err |-> None]]
        /\ waiting' = [waiting EXCEPT ![s] = FALSE]
        /\ delivered' = [delivered EXCEPT ![s] = <<>>]
        /\ anchor' = [anchor EXCEPT ![s] = Len(log)]
        /\ UNCHANGED <<rev, buffer, log, response>>

\* event.rs subscribe: GET /events in the percentage revision.
Subscribe(s) == rev = "percentage" /\ TxSubscribe(s)

\* main.rs sse_handler: GET /events in the String revision.
SseHandler(s) == rev = "message" /\ TxSubscribe(s)

\* Mutant: the serialization is lossy (100 is written as 0).
ToJsonLossy(msg) == <<"{", "percentage", ":", msg.percentage % 100, "}">>

\* serde_json::to_string(&msg) of AppEvent { percentage }.
ToJson(msg) == <<"{", "percentage", ":", msg.percentage, "}">>

\* Event::default().data(..): one push-event frame.
EventData(data) == [data |-> data]

\* event.rs: serde_json::to_string(&msg), then Event::default().data(json_data).
SubscribeFrame(msg) == EventData(ToJson(msg))

\* main.rs: Event::default().data(msg).
SseFrame(msg) == EventData(msg)

\* The Ok(msg) arm of the revision that runs.
Frame(msg) == IF rev = "percentage" THEN SubscribeFrame(msg) ELSE SseFrame(msg)

\* Mutant: the Err(err) arm logs and goes on with the loop.
AfterErrContinue(res) == "streaming"

\* The Err(err) arm: tracing::error!, then break: the stream is over.  The
\* state it leaves names the error that ended it.
AfterErr(res) == IF res = "Lagged" THEN "lagged" ELSE "chan_closed"

\* One turn of the stream's loop: rx.recv().await and the arm it takes.
\*   Ok(msg)  -> one frame is yielded
\*   pending  -> the task suspends until a send wakes it
\*   Err(err) -> the error is logged and the loop breaks
StreamPoll(s) ==
    LET r    == RecvRef(buffer, tail, rx[s].next)
        slot == buffer[r.idx]
    IN  /\ rx[s].alive
        /\ rx[s].st \in {"connected", "streaming"}
        /\ ~waiting[s]
        /\ CASE r.res = "Ok" /\ slot.val # None ->
                  /\ rx' = [rx EXCEPT ![s] = [@ EXCEPT !.st = "streaming", !.next = r.next]]
                  /\ buffer' = ReleaseSlot(buffer, r.idx)
                  /\ delivered' = [delivered EXCEPT ![s] =
                         Append(@, [id |-> slot.id, frame |-> Frame(slot.val[1])])]
                  /\ UNCHANGED waiting
             [] r.res = "Ok" /\ slot.val = None ->
                  /\ rx' = [rx EXCEPT ![s] = [@ EXCEPT !.st = AfterErr("Closed"), !.next = r.next,
                                                       !.err = <<"Closed">>]]
                  /\ buffer' = ReleaseSlot(buffer, r.idx)
                  /\ UNCHANGED <<delivered, waiting>>
             [] r.res = "Empty" ->
                  /\ rx' = [rx EXCEPT ![s] = [@ EXCEPT !.st = "streaming"]]
                  /\ waiting' = [waiting EXCEPT ![s] = TRUE]
                  /\ UNCHANGED <<buffer, delivered>>
             [] r.res = "Closed" ->
                  /\ rx' = [rx EXCEPT ![s] = [@ EXCEPT !.st = AfterErr("Closed"),
                                                       !.err = <<"Closed">>]]
                  /\ UNCHANGED <<buffer, delivered, waiting>>
             [] r.res = "Lagged" ->
                  /\ rx' = [rx EXCEPT ![s] = [@ EXCEPT !.st = AfterErr("Lagged"), !.next = r.next,
                                                       !.err = <<"Lagged", r.missed>>]]
                  /\ UNCHANGED <<buffer, delivered, waiting>>
        /\ UNCHANGED <<rev, tail, anchor, log, response>>

\* event.rs subscribe, the stream! block.
SubscribeStream(s) == rev = "percentage" /\ StreamPoll(s)

\* main.rs sse_handler, the stream! block.
SseStream(s) == rev = "message" /\ StreamPoll(s)

\* Mutant: after the error the handler subscribes again in place and the
\* stream goes on (a retry).
DropRxRestarts(s) ==
    LET r == DropReceiver(buffer, tail, rx[s].next)
        n == NewReceiver(r.tail)
    IN  /\ rx[s].alive
        /\ rx[s].st \in {"lagged", "chan_closed"}
        /\ buffer' = r.buffer
        /\ tail' = n.tail
        /\ rx' = [rx EXCEPT ![s] = [st |-> "streaming", alive |-> TRUE,
                                    next |-> n.next, err |-> None]]
        /\ delivered' = [delivered EXCEPT ![s] = <<>>]
        /\ anchor' = [anchor EXCEPT ![s] = Len(log)]
        /\ UNCHANGED <<rev, waiting, log, response>>

\* The stream has ended after break: its receiver is dropped and the response
\* body is complete.  The drop takes the tail lock anew, so a publish may run
\* between the failed recv and it.
DropRx(s) ==
    LET r == DropReceiver(buffer, tail, rx[s].next)
    IN  /\ rx[s].alive
        /\ rx[s].st \in {"lagged", "chan_closed"}
        /\ buffer' = r.buffer
        /\ tail' = r.tail
        /\ rx' = [rx EXCEPT ![s] = [@ EXCEPT !.alive = FALSE, !.next = 0]]
        /\ delivered' = [delivered EXCEPT ![s] = <<>>]
        /\ anchor' = [anchor EXCEPT ![s] = 0]
        /\ UNCHANGED <<rev, waiting, log, response>>

\* The client closes the connection: the response body, the stream and its
\* receiver are dropped (a pending recv leaves the waiter list).
Disconnect(s) ==
    LET r == DropReceiver(buffer, tail, rx[s].next)
    IN  /\ rx[s].alive
        /\ rx[s].st \in {"connected", "streaming"}
        /\ buffer' = r.buffer
        /\ tail' = r.tail
        /\ rx' = [rx EXCEPT ![s] = [@ EXCEPT !.st = "closed", !.alive = FALSE, !.next = 0]]
        /\ waiting' = [waiting EXCEPT ![s] = FALSE]
        /\ delivered' = [delivered EXCEPT ![s] = <<>>]
        /\ anchor' = [anchor EXCEPT ![s] = 0]
        /\ UNCHANGED <<rev, log, response>>

\* The subscriptions that exist: a receiver handle is alive for each.
Active == {s \in Subs : rx[s].alive}

\* The handlers bound nothing; each specification stops enqueueing at its
\* bound on the length of the log.
Next ==
    \/ \E p \in Percentages : Send(p) /\ Len(log') <= MaxPublishes
    \/ \E m \in Messages : Handler(m) /\ Len(log') <= MaxPublishes
    \/ \E s \in Subs : Subscribe(s)
    \/ \E s \in Subs : SseHandler(s)
    \/ \E s \in Subs : SubscribeStream(s)
    \/ \E s \in Subs : SseStream(s)
    \/ \E s \in Subs : DropRx(s)
    \/ \E s \in Subs : Disconnect(s)

Spec == Init /\ [][Next]_vars

\* Payloads of the fair specification: whether a frame is delivered does not
\* depend on the payload, so one valid payload per revision is posted.
FairPercentages == {100}

FairMessages == {"a"}

FairNext ==
    \/ \E p \in FairPercentages : Send(p) /\ Len(log') <= MaxPublishes
    \/ \E m \in FairMessages : Handler(m) /\ Len(log') <= MaxPublishes
    \/ \E s \in Subs : Subscribe(s)
    \/ \E s \in Subs : SseHandler(s)
    \/ \E s \in Subs : SubscribeStream(s)
    \/ \E s \in Subs : SseStream(s)
    \/ \E s \in Subs : DropRx(s)
    \/ \E s \in Subs : Disconnect(s)

\* The runtime polls a stream task that is runnable: one that was never
\* suspended in recv, or that a send has woken.
FairSpec ==
    /\ Init
    /\ [][FairNext]_vars
    /\ \A s \in Subs : WF_vars(SubscribeStream(s) \/ SseStream(s))

\* Payloads of the error specification: every request error (a percentage
\* out of range on either side, every kind of rejected body) and one valid
\* payload per revision.
ErrorPercentages == {-1, 100, 101}

\* Events enqueued per behaviour of the error specification: enough for a
\* subscription to lag and for a publish after that.
MaxErrorPublishes == 6

ErrorNext ==
    \/ \E p \in ErrorPercentages : Send(p) /\ Len(log') <= MaxErrorPublishes
    \/ \E k \in RejectionKinds : SendRejected(k)
    \/ \E m \in FairMessages : Handler(m) /\ Len(log') <= MaxErrorPublishes
    \/ \E s \in Subs : Subscribe(s)
    \/ \E s \in Subs : SseHandler(s)
    \/ \E s \in Subs : SubscribeStream(s)
    \/ \E s \in Subs : SseStream(s)
    \/ \E s \in Subs : DropRx(s)
    \/ \E s \in Subs : Disconnect(s)

\* The relay with every request error among its inputs.
ErrorSpec == Init /\ [][ErrorNext]_vars

\* ================================================================ claims
\* A publish step of either revision with a payload that passes validation.
ValidPublish ==
    \/ \E p \in Percentages : p >= 0 /\ p <= 100 /\ Send(p)
    \/ \E m \in Messages : Handler(m)

\* The percentages of the frames delivered so far lie in [0,100].
DeliveredInRange ==
    rev = "percentage" =>
        \A s \in Subs : \A i \in 1 .. Len(delivered[s]) :
            LET q == delivered[s][i].frame.data[4] IN q >= 0 /\ q <= 100

\* C1: a publish whose percentage is below 0 or above 100 is answered 400
\* with code RANGE_EXCEEDED_ERROR, leaves the topic (buffer, tail, log of
\* enqueued events) and every subscription unchanged, and no frame with an
\* out-of-range percentage is ever delivered.
C1_RangeRejected ==
    [][/\ \A p \in Percentages :
              (Send(p) /\ (p < 0 \/ p > 100)) =>
                  /\ response'.status = 400
                  /\ response'.code = "RANGE_EXCEEDED_ERROR"
                  /\ UNCHANGED <<buffer, tail, log, rx, waiting, delivered>>
       /\ DeliveredInRange']_vars

\* C1 witness: a range error was answered while a subscription that already
\* received a frame is live.
C1_Witness ==
    /\ response.status = 400
    /\ \E s \in Subs : rx[s].alive /\ Len(delivered[s]) > 0

\* The ids a subscription has been handed by its cursor so far, each once.
ReadOnce(s) ==
    \A k \in (anchor[s] + 1) .. rx[s].next :
        Cardinality({i \in 1 .. Len(delivered[s]) : delivered[s][i].id = k}) = 1

\* C2: a publish with a payload in range (0 and 100 included, or any message)
\* succeeds (200 or 202); it is answered 200 with "Event sent to n listeners!"
\* where n is the number of subscriptions alive at the publish whenever there
\* is one (with exactly one the count is 1) and 202 only when there is none;
\* and a subscription that has read past an event without lagging holds
\* exactly one frame for it.
C2_ListenerCount ==
    [][/\ ValidPublish =>
              /\ response'.status \in {200, 202}
              /\ response'.status = 202 => Active = {}
              /\ Active # {} =>
                     /\ response'.status = 200
                     /\ response'.message = "Event sent to {} listeners!"
                     /\ response'.args = <<Cardinality(Active)>>
                     /\ Len(log') = Len(log) + 1
       /\ \A s \in Subs :
              (rx'[s].alive /\ rx'[s].st \in {"connected", "streaming"}) => ReadOnce(s)'
      ]_vars

\* C2 witness: a publish answered "sent to 1 listeners" whose one subscriber
\* has read the event.
C2_Witness ==
    /\ response.status = 200
    /\ response.args = <<1>>
    /\ \E s \in Subs :
           /\ Active = {s}
           /\ rx[s].next = Len(log)
           /\ Len(delivered[s]) > 0
           /\ delivered[s][Len(delivered[s])].id = Len(log)

\* C3: a valid publish while no subscription is alive is answered 202
\* "Event accepted, but no listeners", not 400 or 500.
C3_NoListenersAccepted ==
    [][(ValidPublish /\ Active = {}) =>
           /\ response'.status = 202
           /\ response'.message = "Event accepted, but no listeners"
           /\ response'.code = ""]_vars

\* C3 witness: a 202 answered after every subscription had gone again.
C3_Witness ==
    /\ response.status = 202
    /\ Active = {}
    /\ \E s \in Subs : rx[s].st \in {"closed", "lagged"}

\* The events resident in the ring.
Resident == {i \in Slots : buffer[i].val # None}

\* C4 as claimed: after a valid publish with no subscription alive the event
\* is resident in the buffer.
C4_Original ==
    [][/\ \A p \in Percentages :
              (Active = {} /\ p >= 0 /\ p <= 100 /\ Send(p))
              => \E i \in Slots : buffer'[i].val = Some([percentage |-> p])
       /\ \A m \in Messages :
              (Active = {} /\ Handler(m))
              => \E i \in Slots : buffer'[i].val = Some(m)]_vars

\* C4 amended: a valid publish while no subscription is alive enqueues
\* nothing: buffer, tail and the log of enqueued events are unchanged.
C4_NoListenersNotEnqueued ==
    [][(ValidPublish /\ Active = {}) => UNCHANGED <<buffer, tail, log>>]_vars

\* C4 witness: a 202 answered when events had been enqueued before it.
C4_Witness ==
    /\ response.status = 202
    /\ tail.pos > 0
    /\ Active = {}

\* C5: every frame a subscription delivers is of an event enqueued after the
\* subscription was created.
C5_NoReplay ==
    \A s \in Subs : \A i \in 1 .. Len(delivered[s]) :
        /\ delivered[s][i].id > anchor[s]
        /\ delivered[s][i].id <= Len(log)

\* C5 witness: a subscription created after earlier publishes has delivered a
\* frame, with older events still resident in the ring.
C5_Witness ==
    \E s \in Subs :
        /\ anchor[s] > 0
        /\ Len(delivered[s]) > 0
        /\ \E i \in Resident : buffer[i].id <= anchor[s]

\* The subscription in slot s is connected and its loop has not ended.
Streaming(s) == rx[s].alive /\ rx[s].st \in {"connected", "streaming"}

\* Event k was enqueued after the subscription of slot s was created.
Owed(s, k) == Streaming(s) /\ anchor[s] < k /\ k <= Len(log)

Got(s, k) == \E i \in 1 .. Len(delivered[s]) : delivered[s][i].id = k

\* C6: under fair scheduling of the stream tasks, a subscription created
\* before an event was enqueued receives it, unless it is disconnected or
\* lags first.
C6_EventuallyDelivered ==
    \A s \in Subs : \A k \in 1 .. MaxPublishes :
        Owed(s, k) ~> (Got(s, k) \/ ~Streaming(s))

\* C6 witness: a subscription that was suspended in recv has been woken by a
\* publish and has delivered the event.
C6_Witness ==
    \E s \in Subs :
        /\ Streaming(s)
        /\ waiting[s]
        /\ Len(delivered[s]) > 0
        /\ Got(s, Len(log))

\* C7: the frames of every subscription are in enqueue order (strictly
\* increasing in the order of the log), and each carries the event enqueued
\* under its number.
C7_ArrivalOrder ==
    \A s \in Subs :
        /\ \A i, j \in 1 .. Len(delivered[s]) :
               i < j => delivered[s][i].id < delivered[s][j].id
        /\ \A i \in 1 .. Len(delivered[s]) :
               /\ delivered[s][i].id \in 1 .. Len(log)
               /\ delivered[s][i].frame = Frame(log[delivered[s][i].id])

\* C7 witness: two subscriptions have both delivered the same two events.
C7_Witness ==
    \E s, t \in Subs :
        /\ s # t
        /\ Len(delivered[s]) >= 2
        /\ Len(delivered[t]) >= 2
        /\ \E k \in 1 .. Len(log) :
               Got(s, k) /\ Got(t, k) /\ Got(s, k + 1) /\ Got(t, k + 1)

\* A turn of the stream loop of slot s, in the revision that runs.
PollStep(s) == SubscribeStream(s) \/ SseStream(s)

\* The events enqueued that the subscription of slot s has not read.
Backlog(s) == tail.pos - rx[s].next

\* The slots the ring has after the rounding of the requested capacity.
RoundedCapacity == NextPowerOfTwo(RequestedCapacity)

\* An enqueue overwrites the slot that holds the oldest position with the
\* new event and leaves every other slot as it was.
EvictsOldest ==
    (ValidPublish /\ Active # {}) =>
        LET i == Idx(tail.pos)
        IN  /\ \A j \in Slots : buffer[i].pos <= buffer[j].pos
            /\ buffer'[i].pos = tail.pos
            /\ buffer'[i].val = Some(log'[Len(log')])
            /\ \A j \in Slots \ {i} : buffer'[j] = buffer[j]

\* C8 as claimed: the capacity asked of the channel bounds the resident
\* events and a subscription lags exactly when its backlog exceeds it.
C8_Original ==
    [][/\ Cardinality(Resident') <= RequestedCapacity
       /\ EvictsOldest
       /\ \A s \in Subs :
              PollStep(s) =>
                  ((rx'[s].st = "lagged") <=> (Backlog(s) > RequestedCapacity))
      ]_vars

\* C8 amended: the bound is the requested capacity rounded up to the next
\* power of two: the ring never holds more events than that, the resident
\* events are among the newest that many, an enqueue evicts the oldest slot
\* and keeps the newest event, and a subscription lags exactly when its
\* backlog exceeds the rounded capacity (a backlog equal to it is delivered).
C8_RoundedCapacity ==
    [][/\ Cardinality(Resident') <= RoundedCapacity
       /\ \A i \in Resident' :
              /\ buffer'[i].pos >= tail'.pos - RoundedCapacity
              /\ buffer'[i].pos < tail'.pos
       /\ EvictsOldest
       /\ \A s \in Subs :
              PollStep(s) =>
                  /\ (rx'[s].st = "lagged") <=> (Backlog(s) > RoundedCapacity)
                  /\ (Backlog(s) > 0 /\ Backlog(s) <= RoundedCapacity) =>
                         /\ Len(delivered'[s]) = Len(delivered[s]) + 1
                         /\ delivered'[s][Len(delivered'[s])].id = rx[s].next + 1
      ]_vars

\* C8 witness: a subscription has read a backlog of exactly the rounded
\* capacity (more than the capacity asked for) to its end.
C8_Witness ==
    \E s \in Subs :
        /\ Streaming(s)
        /\ anchor[s] = 0
        /\ Len(delivered[s]) = RoundedCapacity
        /\ RoundedCapacity > RequestedCapacity
        /\ \E t \in Subs : rx[t].st = "lagged"

\* The loop of slot s has ended on an error of recv.
Broken(s) == rx[s].st \in {"lagged", "chan_closed"}

\* C9: a recv that reports a lag ends the stream at once: the error is
\* recorded, the loop is over (no further turn of it is taken), and the
\* subscription delivers no further frame, resident events included.
C9_LagEndsStream ==
    [][\A s \in Subs :
           /\ (PollStep(s) /\ Backlog(s) > RoundedCapacity) =>
                  /\ rx'[s].st = "lagged"
                  /\ rx'[s].err = <<"Lagged", Backlog(s) - RoundedCapacity>>
                  /\ delivered'[s] = delivered[s]
           /\ Broken(s) =>
                  /\ ~PollStep(s)
                  /\ delivered'[s] \in {delivered[s], <<>>}
                  /\ (Broken(s)' \/ rx'[s].st = "connected")
      ]_vars

\* C9 witness: a subscription has ended on a lag while the event at its
\* cursor is resident in the ring.
C9_Witness ==
    \E s \in Subs :
        /\ rx[s].st = "lagged"
        /\ rx[s].alive
        /\ rx[s].err = <<"Lagged", 1>>
        /\ buffer[Idx(rx[s].next)].pos = rx[s].next
        /\ buffer[Idx(rx[s].next)].val # None

\* A step that ends the subscription of slot s: its recv reports an error,
\* its receiver is dropped after that, or the client disconnects.
Ends(s) == (PollStep(s) /\ Broken(s)') \/ DropRx(s) \/ Disconnect(s)

\* A live subscription has delivered every event between its anchor and its
\* cursor, in order and without a gap.
NoGaps ==
    \A t \in Subs :
        Streaming(t) =>
            /\ rx[t].next = anchor[t] + Len(delivered[t])
            /\ \A i \in 1 .. Len(delivered[t]) : delivered[t][i].id = anchor[t] + i

\* C10 as claimed: when a subscription ends, the buffer contents and every
\* other subscription are unchanged.
C10_Original ==
    [][/\ \A s \in Subs :
              Ends(s) =>
                  /\ \A i \in Slots :
                         /\ buffer'[i].pos = buffer[i].pos
                         /\ buffer'[i].val = buffer[i].val
                  /\ \A t \in Subs \ {s} : rx'[t] = rx[t] /\ delivered'[t] = delivered[t]
       /\ NoGaps']_vars

\* C10 amended: when a subscription ends, the tail position, the position of
\* every slot, every other subscription (cursor, frames) and every event
\* another live subscription has still to read are unchanged; only events
\* that no other subscription has to read are freed.  The other live
\* subscriptions go on delivering every event without a gap.
C10_Isolation ==
    [][/\ \A s \in Subs :
              Ends(s) =>
                  /\ tail'.pos = tail.pos
                  /\ \A i \in Slots : buffer'[i].pos = buffer[i].pos
                  /\ \A t \in Subs \ {s} :
                         /\ rx'[t] = rx[t]
                         /\ delivered'[t] = delivered[t]
                         /\ waiting'[t] = waiting[t]
                         /\ Streaming(t) =>
                                \A p \in rx[t].next .. (tail.pos - 1) :
                                    buffer[Idx(p)].pos = p =>
                                        /\ buffer'[Idx(p)].val = buffer[Idx(p)].val
                                        /\ buffer'[Idx(p)].val # None
       /\ NoGaps']_vars

\* C10 witness: one subscription has ended on a lag and its receiver is
\* dropped, while another that was live beside it has read every event.
C10_Witness ==
    \E s, t \in Subs :
        /\ rx[s].st = "lagged"
        /\ ~rx[s].alive
        /\ Streaming(t)
        /\ anchor[t] = 0
        /\ rx[t].next = tail.pos
        /\ Len(delivered[t]) > RoundedCapacity


\* The subscription of slot s is over: the client disconnected, or it lagged.
Terminated(s) == rx[s].st \in {"closed", "lagged"}

\* A step that creates a new subscription in slot s: a new GET /events, with
\* a fresh cursor at the tail and no frame delivered.
NewSubscription(s) ==
    /\ Subscribe(s) \/ SseHandler(s)
    /\ rx'[s].st = "connected"
    /\ rx'[s].next = tail.pos
    /\ delivered'[s] = <<>>
    /\ anchor'[s] = Len(log)

\* A terminated subscription takes no further turn of its loop, delivers no
\* further frame and changes state only by a new subscription in its slot.
TerminalIsFinal(s) ==
    Terminated(s) =>
        /\ ~PollStep(s)
        /\ Len(delivered'[s]) <= Len(delivered[s])
        /\ rx'[s].st = rx[s].st \/ NewSubscription(s)

\* The transitions of the claimed state machine.
ClaimedEdges ==
    {<<"connected", "streaming">>, <<"streaming", "closed">>,
     <<"streaming", "lagged">>}

\* A subscription that ends before its stream has yielded or suspended once:
\* the client disconnects before the first poll of the lazy stream, or the
\* first recv already reports a lag.
EarlyEndEdges == {<<"connected", "closed">>, <<"connected", "lagged">>}

\* C11 as claimed: Connected -> Streaming -> {Closed, Lagged} and no other
\* transition; Closed and Lagged are terminal.
C11_Original ==
    [][\A s \in Subs :
           /\ rx'[s].st # rx[s].st =>
                  \/ <<rx[s].st, rx'[s].st>> \in ClaimedEdges
                  \/ NewSubscription(s)
           /\ TerminalIsFinal(s)]_vars

\* C11 amended: the claimed machine plus the two early ends from Connected;
\* Closed and Lagged are terminal, a terminated subscription is not resumed
\* and delivers nothing more, and only a new subscription follows it.
C11_StateMachine ==
    [][\A s \in Subs :
           /\ rx'[s].st # rx[s].st =>
                  \/ <<rx[s].st, rx'[s].st>> \in ClaimedEdges \cup EarlyEndEdges
                  \/ NewSubscription(s)
           /\ TerminalIsFinal(s)]_vars

\* C11 witness: a new subscription lives in a slot beside one that ended on
\* a lag and whose receiver is gone.
C11_Witness ==
    \E s, t \in Subs :
        /\ rx[s].st = "lagged"
        /\ ~rx[s].alive
        /\ rx[t].st = "streaming"
        /\ anchor[t] > RoundedCapacity


\* The code the claim gives each kind of rejection.
ClaimedCode(kind) ==
    CASE kind = "MissingJsonContentType" -> "MISSING_JSON_CONTENT_TYPE"
      [] kind = "JsonSyntaxError"        -> "JSON_VALIDITY_ERROR"
      [] kind = "JsonDataError"          -> "JSON_DESERIALIZATION_ERROR"
      [] kind = "BytesRejection"         -> "BUFFER_ERROR"
      [] OTHER                           -> "UNKNOWN_ERROR"

\* C12: a publish whose body the extractor rejects is answered 400 with the
\* code of its cause, before the relay is reached (topic and subscriptions
\* unchanged, nothing delivered); any other rejection maps to 500
\* UNKNOWN_ERROR; the codes of different kinds differ.
C12_RejectionCodes ==
    [][/\ \A k \in RejectionKinds :
              SendRejected(k) =>
                  /\ response'.status = 400
                  /\ response'.code = ClaimedCode(k)
                  /\ UNCHANGED <<buffer, tail, log, rx, waiting, delivered, anchor>>
       /\ IntoResponse(OtherRejection).status = 500
       /\ IntoResponse(OtherRejection).code = "UNKNOWN_ERROR"
       /\ \A j, k \in RejectionKinds \cup {OtherRejection} :
              j # k => IntoResponse(j).code # IntoResponse(k).code
      ]_vars

\* C12 witness: a body with a schema mismatch was rejected while a
\* subscription that has received a frame is live.
C12_Witness ==
    /\ response.code = "JSON_DESERIALIZATION_ERROR"
    /\ \E s \in Subs : Streaming(s) /\ Len(delivered[s]) > 0


\* C13: a publish never waits: in every state, whatever the fill of the ring
\* and however far behind or lagged the subscriptions are, each publish
\* request can take its one step.
C13_PublishNeverBlocks ==
    /\ rev = "percentage" => \A p \in Percentages : ENABLED Send(p)
    /\ rev = "message" => \A m \in Messages : ENABLED Handler(m)

\* C13 witness: a publish was answered 200 after the ring had been full with
\* a live subscription a whole ring behind.
C13_Witness ==
    /\ response.status = 200
    /\ \E s \in Subs :
           /\ rx[s].alive
           /\ rx[s].st \in {"connected", "streaming"}
           /\ Backlog(s) > RoundedCapacity


\* The subscription of slot s can take the turn of its loop that its backlog
\* calls for: with nothing to read it suspends and stays subscribed, with an
\* event within the ring to read it yields the frame of that event.
Served(s) ==
    /\ Backlog(s) = 0 /\ ~waiting[s] =>
           ENABLED (PollStep(s) /\ Streaming(s)' /\ waiting'[s])
    /\ Backlog(s) > 0 /\ Backlog(s) <= RoundedCapacity =>
           /\ ~waiting[s]
           /\ ENABLED (/\ PollStep(s)
                       /\ Streaming(s)'
                       /\ delivered'[s] = Append(delivered[s],
                              [id |-> rx[s].next + 1,
                               frame |-> Frame(log[rx[s].next + 1])]))

\* C14: no error is fatal.  In every state the relay reaches through range
\* errors, rejected bodies, publishes without listeners, lags and
\* disconnects, a publish request is answered, a free connection can
\* subscribe anew, and a live subscription finds the channel open, is
\* counted as a listener and is served the events enqueued after it.
C14_NoFatalError ==
    /\ rev = "percentage" =>
           /\ \A p \in ErrorPercentages : ENABLED Send(p)
           /\ \A k \in RejectionKinds : ENABLED SendRejected(k)
    /\ rev = "message" => \A m \in FairMessages : ENABLED Handler(m)
    /\ \A s \in Subs :
           /\ ~rx[s].alive => ENABLED NewSubscription(s)
           /\ Streaming(s) =>
                  /\ ~tail.closed
                  /\ tail.rx_cnt = Cardinality(Active)
                  /\ anchor[s] + Len(delivered[s]) = rx[s].next
                  /\ Served(s)

\* C14 witness: a subscription ended on a lag and its receiver is gone; a
\* subscription created when every event that lag was about had been
\* enqueued has received an event published after that.
C14_Witness ==
    \E s, t \in Subs :
        /\ rx[s].st = "lagged"
        /\ ~rx[s].alive
        /\ Streaming(t)
        /\ anchor[t] > RoundedCapacity
        /\ Len(delivered[t]) > 0
        /\ Got(t, Len(log))



\* What a client reads back from the data field of a frame: the JSON object
\* parsed in the percentage revision, the text itself in the String revision.
Payload(frame) ==
    IF rev = "percentage" THEN [percentage |-> frame.data[4]] ELSE frame.data

\* The publishes that were enqueued: each was a request that passed
\* validation.
Accepted ==
    IF rev = "percentage"
    THEN \A k \in 1 .. Len(log) : ~RangeExceeded(log[k].percentage)
    ELSE \A k \in 1 .. Len(log) : log[k] \in Messages

\* C15: no fabrication and no duplication.  The log grows only by the
\* payload of a valid publish that is answered 200; the payload read back
\* from every delivered frame is the payload of the accepted publish the
\* frame stands for; no subscription holds two frames of one publish; and a
\* turn of a stream loop adds at most one frame, of an event the
\* subscription did not hold.
C15_NoFabricationNoDuplication ==
    [][/\ log' # log =>
              /\ ValidPublish
              /\ response'.status = 200
              /\ Len(log') = Len(log) + 1
              /\ \A k \in 1 .. Len(log) : log'[k] = log[k]
       /\ Accepted'
       /\ \A s \in Subs :
              /\ \A i \in 1 .. Len(delivered'[s]) :
                     \E k \in 1 .. Len(log') :
                         /\ delivered'[s][i].id = k
                         /\ Payload(delivered'[s][i].frame) = log'[k]
              /\ Cardinality({delivered'[s][i].id : i \in 1 .. Len(delivered'[s])})
                     = Len(delivered'[s])
              /\ PollStep(s) =>
                     \/ delivered'[s] = delivered[s]
                     \/ /\ Len(delivered'[s]) = Len(delivered[s]) + 1
                        /\ ~Got(s, delivered'[s][Len(delivered'[s])].id)
      ]_vars

\* C15 witness: two subscriptions hold the same two events, one frame each
\* per event, while publishes of different payloads are in the log.
C15_Witness ==
    /\ Len(log) >= 2
    /\ log[1] # log[2]
    /\ \A s \in Subs :
           /\ Streaming(s)
           /\ Len(delivered[s]) = 2
           /\ Got(s, 1) /\ Got(s, 2)



\* C16: for a valid publish the statuses 200 and 202 split on the
\* subscriptions alive at the publish: 200 exactly when there is at least
\* one, with a count that is never 0 and counts the subscriptions only, 202
\* exactly when there is none.  The receiver made with the channel at
\* startup is not in the count: the count of the channel is the number of
\* subscriptions in every state, 0 at startup.
C16_StatusBySubscriptions ==
    [][/\ ValidPublish =>
              /\ (response'.status = 200) <=> (Cardinality(Active) >= 1)
              /\ (response'.status = 202) <=> (Cardinality(Active) = 0)
              /\ response'.status = 200 =>
                     /\ response'.args # <<0>>
                     /\ response'.args = <<Cardinality(Active)>>
              /\ response'.status = 202 => response'.args = <<>>
       /\ tail.rx_cnt = Cardinality(Active)
       /\ tail'.rx_cnt = Cardinality(Active')
       /\ AppStateNew.tail.rx_cnt = 0
      ]_vars

\* C16 witness: the first event ever enqueued was answered 200 with a count
\* of one, its one subscription, after a publish before it was answered 202.
C16_Witness ==
    /\ Len(log) = 1
    /\ tail.pos = 1
    /\ response.status = 200
    /\ response.args = <<1>>
    /\ Cardinality(Active) = 1
    /\ \E s \in Subs : rx[s].st = "closed"



\* C17: the one channel made at startup serves every handler for the whole
\* run and its sender is never dropped: while a subscription is alive the
\* channel is not closed, no recv reports Closed and no stream ends on it;
\* a stream that is live ends only by a turn of its loop that reports a lag
\* or by the disconnect of its client.
C17_NeverChannelClosed ==
    [][\A s \in Subs :
           /\ rx[s].alive => ~tail.closed
           /\ rx'[s].st # "chan_closed"
           /\ rx'[s].err = None \/ rx'[s].err[1] = "Lagged"
           /\ PollStep(s) => RecvRef(buffer, tail, rx[s].next).res # "Closed"
           /\ (Streaming(s) /\ ~Streaming(s)') =>
                  \/ PollStep(s) /\ rx'[s].st = "lagged" /\ rx'[s].err[1] = "Lagged"
                  \/ Disconnect(s) /\ rx'[s].st = "closed"
      ]_vars

\* C17 witness: the last receivers had gone (one on a lag) and the channel
\* was reopened by a new subscription, which found nothing to read and is
\* suspended in recv, alone on the channel.
C17_Witness ==
    \E s, t \in Subs :
        /\ rx[s].st = "lagged"
        /\ ~rx[s].alive
        /\ Active = {t}
        /\ Streaming(t)
        /\ waiting[t]
        /\ rx[t].next = tail.pos
        /\ anchor[t] = Len(log)

====
